---- MODULE Spec2Model ----
(***************************************************************************)
(* Ground-plane orientation estimator of the BigNoob plugin                *)
(* (BigNoobBPLibrary.cpp): ConstructPlaneFromPoints, FindMedianPlane and   *)
(* FindQuatFromPlane.                                                      *)
(*                                                                         *)
(* Numbers.  Points have integer coordinates, so differences, cross       *)
(* products and squared lengths are exact.  A unit vector v/|v| is kept as *)
(* the primitive integer vector of its direction (v divided by the gcd of  *)
(* its components); the zero vector is (0,0,0).  Cosines, angles and       *)
(* quaternion components are fixed-point numbers with One = 1.0, computed  *)
(* to within 0.001; parallel unit vectors have the cosine One exactly.     *)
(***************************************************************************)
EXTENDS Integers, Sequences, FiniteSets

\* The sample points on the x axis have x in 1..MaxX.
MaxX == 2
\* The longest point cloud handed to the estimator.
MaxPoints == 4
\* The longest point cloud of two interleaved invocations.
MaxConcPoints == 3

\* Height of the outlier above the plane of the 8-point cluster.
OutlierHeight == 5

\* Fixed-point unit: the value 1.0 (UpVector.Z, the clamp limits).
One == 10000
\* acosf(0) and acosf(-1) in fixed point.
HalfPi == 15708
Pi == 2 * HalfPi
\* MAX_flt, the initial SmallestAngleSum.
MAX_flt == 2147483647
\* KINDA_SMALL_NUMBER is 1 / KindaSmallDen.
KindaSmallDen == 10000

VARIABLES
    HitPoints,      \* the argument of FindQuatFromPlane
    pc,             \* position of the call
    ValidPlanes,    \* FindMedianPlane's local array
    visited,        \* the index triples handed to ConstructPlaneFromPoints, in order
    MedianPlane,    \* FindMedianPlane's local / return value
    medianIdx,      \* index in ValidPlanes MedianPlane was last copied from
    RotationQuat,   \* the value FindQuatFromPlane returns
    log,            \* UE_LOG warnings written by the call
    oob,            \* TRUE once ValidPlanes[0] was read from an empty array
    calls           \* the frames of two invocations that run interleaved

vars == <<HitPoints, pc, ValidPlanes, visited, MedianPlane, medianIdx, RotationQuat, log, oob, calls>>

----------------------------------------------------------------------------
(* Integer helpers *)

Abs(a) == IF a < 0 THEN -a ELSE a

RECURSIVE Gcd(_, _)
Gcd(a, b) == IF b = 0 THEN a ELSE Gcd(b, a % b)

RECURSIVE SqrtIter(_, _)
SqrtIter(n, g) ==
    LET h == (g + n \div g) \div 2
    IN  IF h >= g THEN g ELSE SqrtIter(n, h)

\* floor of the square root of n by Newton's iteration from g, a number not below it
ISqrt(n, g) == IF n <= 0 THEN 0 ELSE SqrtIter(n, g)

----------------------------------------------------------------------------
(* FVector *)

Vec(a, b, c) == [x |-> a, y |-> b, z |-> c]

ZeroVector == Vec(0, 0, 0)

UpVector == Vec(0, 0, 1)

VSub(a, b) == Vec(a.x - b.x, a.y - b.y, a.z - b.z)

CrossProduct(a, b) ==
    Vec(a.y * b.z - a.z * b.y, a.z * b.x - a.x * b.z, a.x * b.y - a.y * b.x)

DotProduct(a, b) == a.x * b.x + a.y * b.y + a.z * b.z

SizeSquared(v) == DotProduct(v, v)

\* FVector::GetSafeNormal: the zero vector for a (near) zero length, else v / |v|,
\* held as the primitive vector of v's direction.
GetSafeNormal(v) ==
    IF SizeSquared(v) = 0
    THEN ZeroVector
    ELSE LET g == Gcd(Gcd(Abs(v.x), Abs(v.y)), Abs(v.z))
         IN  Vec(v.x \div g, v.y \div g, v.z \div g)

\* |v| * 1000, rounded down
RLen(v) == ISqrt(SizeSquared(v) * 1000000, SizeSquared(v) * 1000)

\* DotProduct of the unit vectors a/|a| and b/|b| in fixed point (before the clamp
\* the rounding can leave it above One)
UnitDot(a, b) ==
    IF SizeSquared(a) = 0 \/ SizeSquared(b) = 0
    THEN 0
    ELSE LET s == DotProduct(a, b)
             m == Abs(s) * 1000000
             r1 == RLen(a)
             r2 == RLen(b)
             u == (m \div r1) * 10 + ((m % r1) * 10) \div r1
             c == (u * 1000) \div r2
         IN  IF s < 0 THEN -c ELSE c

\* FMath::Clamp
Clamp(v, lo, hi) == IF v < lo THEN lo ELSE IF v > hi THEN hi ELSE v

\* acosf on [-One, One]: sqrt(1-x) * (a0 + a1 x + a2 x^2 + a3 x^3), mirrored for x < 0
RECURSIVE Acos(_)
Acos(c) ==
    IF c < 0
    THEN Pi - Acos(-c)
    ELSE LET sq == ISqrt((One - c) * One, One)
             p3 == 743 - (187 * c) \div One
             p2 == (p3 * c) \div One - 2121
             poly == (p2 * c) \div One + HalfPi
         IN  (sq * poly) \div One

\* sin and cos on [0, HalfPi] (Taylor polynomials)
Sin(h) ==
    LET x2 == (h * h) \div One
        t3 == One - (x2 * 238) \div One
        t2 == One - (((x2 * 500) \div One) * t3) \div One
        t1 == One - (((x2 * 1667) \div One) * t2) \div One
    IN  (h * t1) \div One

Cos(h) ==
    LET x2 == (h * h) \div One
        t4 == One - (x2 * 179) \div One
        t3 == One - (((x2 * 333) \div One) * t4) \div One
        t2 == One - (((x2 * 833) \div One) * t3) \div One
    IN  One - (((x2 * 5000) \div One) * t2) \div One

----------------------------------------------------------------------------
(* FPlane and ConstructPlaneFromPoints *)

\* FPlane(A, Normal): the unit normal and W = A . Normal (n holds the direction of
\* the normal, w the dot product with that direction vector)
FPlane(A, Normal) == [n |-> Normal, w |-> DotProduct(A, Normal)]

\* CrossProduct.SizeSquared() <= KINDA_SMALL_NUMBER
IsCollinear(CrossP) == SizeSquared(CrossP) * KindaSmallDen <= 1

ConstructPlaneFromPoints(A, B, C) ==
    LET AB == VSub(B, A)
        AC == VSub(C, A)
        CrossP == CrossProduct(AB, AC)
    IN  IF IsCollinear(CrossP)
        THEN [ok |-> FALSE, plane |-> FPlane(A, ZeroVector)]
        ELSE [ok |-> TRUE, plane |-> FPlane(A, GetSafeNormal(CrossP))]

----------------------------------------------------------------------------
(* FindMedianPlane, lines 83-100: the three nested loops.  Indices are the code's *)
(* (from 0).  Each loop yields the index triples it hands to                       *)
(* ConstructPlaneFromPoints, in the order it visits them.                          *)

\* a faulty middle loop that skips the neighbour of i
JStartSkipsNeighbour(i) == i + 2

\* int32 j = i + 1
JStart(i) == i + 1

\* a faulty innermost loop that starts at j
KStartAtJ(j) == j

\* int32 k = j + 1
KStart(j) == j + 1

\* for (k = j + 1; k < NumPoints; ++k)
LoopK(NumPoints, i, j) ==
    [d \in 1..(NumPoints - KStart(j)) |-> <<i, j, KStart(j) + d - 1>>]

\* for (j = i + 1; j < NumPoints - 1; ++j)
RECURSIVE LoopJ(_, _, _)
LoopJ(NumPoints, i, j) ==
    IF ~(j < NumPoints - 1)
    THEN <<>>
    ELSE LoopK(NumPoints, i, j) \o LoopJ(NumPoints, i, j + 1)

\* for (i = 0; i < NumPoints - 2; ++i)
RECURSIVE LoopI(_, _)
LoopI(NumPoints, i) ==
    IF ~(i < NumPoints - 2)
    THEN <<>>
    ELSE LoopJ(NumPoints, i, JStart(i)) \o LoopI(NumPoints, i + 1)

IsOk(r) == r.ok

\* ValidPlanes.Add(NewPlane) for every triple ConstructPlaneFromPoints accepts
EnumeratePlanes(pts) ==
    LET triples == LoopI(Len(pts), 0)
        results == [u \in 1..Len(triples) |->
                       ConstructPlaneFromPoints(pts[triples[u][1] + 1],
                                                pts[triples[u][2] + 1],
                                                pts[triples[u][3] + 1])]
        accepted == SelectSeq(results, IsOk)
    IN  [planes |-> [u \in 1..Len(accepted) |-> accepted[u].plane], visited |-> triples]

----------------------------------------------------------------------------
(* FindMedianPlane, lines 102-128: the selection *)

\* acosf(Clamp(DotProduct(a.GetSafeNormal(), b.GetSafeNormal()), -1, 1))
AngleBetween(a, b) ==
    Acos(Clamp(UnitDot(GetSafeNormal(a.n), GetSafeNormal(b.n)), -One, One))

\* for (j = lo; j <= hi; ++j) if (i != j) AngleSum += acosf(...): the iterations
\* lo..hi in order; the range is split in halves, and the first half evaluated
\* before the second is entered, to keep the evaluation shallow
RECURSIVE SumLoop(_, _, _, _, _)
SumLoop(planes, i, lo, hi, AngleSum) ==
    IF lo > hi
    THEN AngleSum
    ELSE IF lo = hi
         THEN IF i # lo
              THEN AngleSum + AngleBetween(planes[i + 1], planes[lo + 1])
              ELSE AngleSum
         ELSE LET mid == (lo + hi) \div 2
                  half == SumLoop(planes, i, lo, mid, AngleSum)
              IN  IF half >= 0 THEN SumLoop(planes, i, mid + 1, hi, half) ELSE half

AngleSumOf(planes, i) == SumLoop(planes, i, 0, Len(planes) - 1, 0)

\* a faulty comparison that lets the last plane with the minimal sum win
IsSmallerOrEqual(AngleSum, SmallestAngleSum) == AngleSum <= SmallestAngleSum

\* if (AngleSum < SmallestAngleSum)
IsSmaller(AngleSum, SmallestAngleSum) == AngleSum < SmallestAngleSum

\* one iteration of the outer loop; st holds SmallestAngleSum, MedianPlane and the
\* index MedianPlane was copied from
SelectStep(planes, i, st) ==
    LET AngleSum == AngleSumOf(planes, i)
    IN  IF IsSmaller(AngleSum, st.smallest)
        THEN [smallest |-> AngleSum, plane |-> planes[i + 1], idx |-> i]
        ELSE st

\* for (i = lo; i <= hi; ++i): the iterations in order, the range split in halves
RECURSIVE SelectLoop(_, _, _, _)
SelectLoop(planes, lo, hi, st) ==
    IF lo > hi
    THEN st
    ELSE IF lo = hi
         THEN SelectStep(planes, lo, st)
         ELSE LET mid == (lo + hi) \div 2
                  half == SelectLoop(planes, lo, mid, st)
              IN  IF half.smallest >= 0 THEN SelectLoop(planes, mid + 1, hi, half) ELSE half

\* lines 103-128, from the MedianPlane that line 104 read
SelectMedian(planes, first, firstIdx) ==
    SelectLoop(planes, 0, Len(planes) - 1,
               [smallest |-> MAX_flt, plane |-> first, idx |-> firstIdx])

----------------------------------------------------------------------------
(* FindQuatFromPlane, lines 139-148, and FQuat(Axis, AngleRad) *)

\* s * (a.c / |a|) for a component c of the unit vector a/|a|
ScaleByUnit(s, comp, a) ==
    IF SizeSquared(a) = 0
    THEN 0
    ELSE LET m == (s * Abs(comp) * 1000) \div RLen(a)
         IN  IF comp < 0 THEN -m ELSE m

FQuat(Axis, AngleRad) ==
    LET half == AngleRad \div 2
        s == Sin(half)
        c == Cos(half)
    IN  [x |-> ScaleByUnit(s, Axis.x, Axis),
         y |-> ScaleByUnit(s, Axis.y, Axis),
         z |-> ScaleByUnit(s, Axis.z, Axis),
         w |-> c]

QuatIdentity == [x |-> 0, y |-> 0, z |-> 0, w |-> One]

\* the cross product of two unit vectors has the direction of the cross product of
\* their direction vectors
RotationAxisOf(PlaneNormal) == GetSafeNormal(CrossProduct(UpVector, PlaneNormal))

\* FMath::Acos clamps its argument to [-1, 1]
RotationAngleOf(PlaneNormal) == Acos(Clamp(UnitDot(UpVector, PlaneNormal), -One, One))

QuatFromPlane(BestPlane) ==
    LET PlaneNormal == GetSafeNormal(BestPlane.n)
    IN  FQuat(RotationAxisOf(PlaneNormal), RotationAngleOf(PlaneNormal))

----------------------------------------------------------------------------
(* The call FindQuatFromPlane(HitPoints) *)

\* the sample points: the origin, the unit points of the y and z axes and the
\* points 1..MaxX of the x axis (three or more of them on one line)
Grid == {Vec(0, 0, 0), Vec(0, 1, 0), Vec(0, 0, 1)} \cup {Vec(k, 0, 0) : k \in 1..MaxX}

Clouds == UNION {[1..n -> Grid] : n \in 0..MaxPoints}

NoPlane == [n |-> ZeroVector, w |-> 0]

NoQuat == [x |-> 0, y |-> 0, z |-> 0, w |-> 0]

\* what a read past the end of the empty ValidPlanes can deliver
GarbagePlanes == {FPlane(ZeroVector, n) : n \in {ZeroVector, UpVector, Vec(1, 0, 0), Vec(0, 0, -1)}}

\* a faulty guard that lets two points through
NotEnoughPointsOffByOne(pts) == Len(pts) < 2

\* HitPoints.Num() < 3
NotEnoughPoints(pts) == Len(pts) < 3

Init ==
    /\ HitPoints \in Clouds
    /\ pc = "entry"
    /\ ValidPlanes = <<>>
    /\ visited = <<>>
    /\ MedianPlane = NoPlane
    /\ medianIdx = -1
    /\ RotationQuat = NoQuat
    /\ log = <<>>
    /\ oob = FALSE
    /\ calls = <<>>

\* lines 133-137
Entry ==
    /\ pc = "entry"
    /\ IF NotEnoughPoints(HitPoints)
       THEN /\ log' = Append(log, "Not enough points to define a plane.")
            /\ RotationQuat' = QuatIdentity
            /\ pc' = "done"
       ELSE /\ pc' = "enumerate"
            /\ UNCHANGED <<log, RotationQuat>>
    /\ UNCHANGED <<HitPoints, ValidPlanes, visited, MedianPlane, medianIdx, oob, calls>>

\* lines 83-100
Enumerate ==
    /\ pc = "enumerate"
    /\ LET r == EnumeratePlanes(HitPoints)
       IN  /\ ValidPlanes' = r.planes
           /\ visited' = r.visited
    /\ pc' = "first"
    /\ UNCHANGED <<HitPoints, MedianPlane, medianIdx, RotationQuat, log, oob, calls>>

\* lines 103-104: FPlane MedianPlane = ValidPlanes[0]
ReadFirst ==
    /\ pc = "first"
    /\ \/ /\ Len(ValidPlanes) > 0
          /\ MedianPlane' = ValidPlanes[1]
          /\ medianIdx' = 0
          /\ pc' = "select"
          /\ UNCHANGED oob
       \/ /\ Len(ValidPlanes) = 0
          /\ oob' = TRUE
          /\ pc' = "fault"
          /\ UNCHANGED <<MedianPlane, medianIdx>>
       \/ /\ Len(ValidPlanes) = 0
          /\ oob' = TRUE
          /\ MedianPlane' \in GarbagePlanes
          /\ pc' = "select"
          /\ UNCHANGED medianIdx
    /\ UNCHANGED <<HitPoints, ValidPlanes, visited, RotationQuat, log, calls>>

\* lines 105-128
Select ==
    /\ pc = "select"
    /\ LET r == SelectMedian(ValidPlanes, MedianPlane, medianIdx)
       IN  /\ MedianPlane' = r.plane
           /\ medianIdx' = r.idx
    /\ pc' = "quat"
    /\ UNCHANGED <<HitPoints, ValidPlanes, visited, RotationQuat, log, oob, calls>>

\* lines 139-148
BuildQuat ==
    /\ pc = "quat"
    /\ RotationQuat' = QuatFromPlane(MedianPlane)
    /\ pc' = "done"
    /\ UNCHANGED <<HitPoints, ValidPlanes, visited, MedianPlane, medianIdx, log, oob, calls>>

Next == Entry \/ Enumerate \/ ReadFirst \/ Select \/ BuildQuat

Spec == Init /\ [][Next]_vars

----------------------------------------------------------------------------
(* Vocabulary of the properties *)

\* tolerance of the fixed-point comparisons (0.005)
Tol == One \div 200

WarningText == "Not enough points to define a plane."

Triples(n) == {t \in (0..(n - 1)) \X (0..(n - 1)) \X (0..(n - 1)) : t[1] < t[2] /\ t[2] < t[3]}

TripleCross(pts, t) ==
    CrossProduct(VSub(pts[t[2] + 1], pts[t[1] + 1]), VSub(pts[t[3] + 1], pts[t[1] + 1]))

\* every index triple is collinear or coincident
AllCollinear(pts) == \A t \in Triples(Len(pts)) : TripleCross(pts, t) = ZeroVector

Parallel(a, b) == a # ZeroVector /\ b # ZeroVector /\ CrossProduct(a, b) = ZeroVector

LexLess(s, t) ==
    \/ s[1] < t[1]
    \/ s[1] = t[1] /\ s[2] < t[2]
    \/ s[1] = t[1] /\ s[2] = t[2] /\ s[3] < t[3]

Returned == pc = "done"

Enumerated == pc \in {"first", "select", "quat", "done", "fault"}

Selected == pc \in {"quat", "done"}

----------------------------------------------------------------------------
\* C2: with 0, 1 or 2 points the call returns the identity rotation and logs the
\* not-enough-points warning; it visits no triple, builds no plane and never enters
\* the median selection.
C2_FewPointsIdentity ==
    Len(HitPoints) < 3 =>
        /\ pc \in {"entry", "done"}
        /\ visited = <<>> /\ ValidPlanes = <<>>
        /\ MedianPlane = NoPlane /\ medianIdx = -1 /\ ~oob
        /\ Returned => RotationQuat = QuatIdentity /\ log = <<WarningText>>

C2_Witness == Returned /\ Len(HitPoints) = 2 /\ RotationQuat = QuatIdentity /\ log = <<WarningText>>

----------------------------------------------------------------------------
\* C10: the enumeration visits every index triple i<j<k exactly once, in
\* lexicographic order (none for fewer than 3 points); ValidPlanes holds, in that
\* order, one plane for each visited triple whose cross product has a squared length
\* above the collinearity epsilon and nothing for the others; the plane's normal is
\* the unit vector of that cross product and the plane passes through points[i].
NonDegenerate(u) == SizeSquared(TripleCross(HitPoints, visited[u])) * KindaSmallDen > 1

NonDegenerateIdx == {u \in 1..Len(visited) : NonDegenerate(u)}

RankOf(u) == Cardinality({v \in NonDegenerateIdx : v <= u})

IsUnitVectorOf(n, c) ==
    /\ CrossProduct(n, c) = ZeroVector
    /\ DotProduct(n, c) > 0
    /\ Gcd(Gcd(Abs(n.x), Abs(n.y)), Abs(n.z)) = 1

C10_Enumeration ==
    Enumerated =>
        /\ Len(visited) = Cardinality(Triples(Len(HitPoints)))
        /\ {visited[u] : u \in 1..Len(visited)} = Triples(Len(HitPoints))
        /\ \A u \in 1..Len(visited) : \A v \in 1..Len(visited) :
               u < v => LexLess(visited[u], visited[v])
        /\ Len(ValidPlanes) = Cardinality(NonDegenerateIdx)
        /\ \A u \in NonDegenerateIdx :
               LET P == ValidPlanes[RankOf(u)]
                   A == HitPoints[visited[u][1] + 1]
               IN  /\ IsUnitVectorOf(P.n, TripleCross(HitPoints, visited[u]))
                   /\ P.w = DotProduct(A, P.n)

\* a cloud of 4 points with a collinear triple of three different points and a
\* triple that spans a plane
C10_Witness ==
    /\ Returned /\ Len(HitPoints) = 4
    /\ \E u \in 1..Len(visited) :
          /\ ~NonDegenerate(u)
          /\ Cardinality({HitPoints[visited[u][c] + 1] : c \in 1..3}) = 3
    /\ Len(ValidPlanes) >= 2

----------------------------------------------------------------------------
\* C9: for a non-empty ValidPlanes the selection returns the element whose sum of
\* angles to all other elements is minimal, and among the elements with the minimal
\* sum the first one in enumeration order.
RECURSIVE SumOver(_, _, _)
SumOver(S, planes, i) ==
    IF S = {}
    THEN 0
    ELSE LET j == CHOOSE e \in S : TRUE
         IN  AngleBetween(planes[i], planes[j]) + SumOver(S \ {j}, planes, i)

\* the sum of the angles between plane i and every other plane (indices from 1)
TotalAngle(planes, i) == SumOver((1..Len(planes)) \ {i}, planes, i)

C9_MedianIsFirstMinimum ==
    (Selected /\ Len(ValidPlanes) > 0) =>
        LET total == [j \in 1..Len(ValidPlanes) |-> TotalAngle(ValidPlanes, j)]
        IN  /\ medianIdx \in 0..(Len(ValidPlanes) - 1)
            /\ MedianPlane = ValidPlanes[medianIdx + 1]
            /\ \A j \in 1..Len(ValidPlanes) : total[medianIdx + 1] <= total[j]
            /\ \A j \in 1..medianIdx : total[j] > total[medianIdx + 1]

\* the selection moved off the first plane, a later plane ties with the winner and
\* another plane has a larger sum
C9_Witness ==
    /\ Returned /\ Len(ValidPlanes) >= 3 /\ medianIdx > 0
    /\ \E j \in (medianIdx + 2)..Len(ValidPlanes) :
          TotalAngle(ValidPlanes, j) = TotalAngle(ValidPlanes, medianIdx + 1)
    /\ \E j \in 1..Len(ValidPlanes) :
          TotalAngle(ValidPlanes, j) > TotalAngle(ValidPlanes, medianIdx + 1)

----------------------------------------------------------------------------
\* C1: when the cloud has at least 3 points and every index triple is collinear or
\* coincident, the call finds the plane set empty, never reads an element of the
\* empty ValidPlanes, does not fault, and returns the identity rotation together
\* with a report of the no-valid-plane condition.
C1_EmptyPlaneSetGuarded ==
    (Len(HitPoints) >= 3 /\ AllCollinear(HitPoints)) =>
        /\ ~oob
        /\ pc # "fault"
        /\ Returned => RotationQuat = QuatIdentity /\ log # <<>>

----------------------------------------------------------------------------
(* Quaternions as rotations *)

QuatSizeSquared(q) == q.x * q.x + q.y * q.y + q.z * q.z + q.w * q.w

\* |q| = 1 within the tolerance
IsUnitQuat(q) == Abs(QuatSizeSquared(q) - One * One) <= 2 * One * Tol

\* q rotates (0,0,1) to (2(xz + wy), 2(yz - wx), 1 - 2(xx + yy))
RotateUp(q) ==
    Vec((2 * (q.x * q.z + q.w * q.y)) \div One,
        (2 * (q.y * q.z - q.w * q.x)) \div One,
        One - (2 * (q.x * q.x + q.y * q.y)) \div One)

\* the unit vector n/|n| in fixed point
UnitFixed(n) == Vec(ScaleByUnit(One, n.x, n), ScaleByUnit(One, n.y, n), ScaleByUnit(One, n.z, n))

Close(a, b) == Abs(a.x - b.x) <= Tol /\ Abs(a.y - b.y) <= Tol /\ Abs(a.z - b.z) <= Tol

DownVector == Vec(0, 0, -1)

\* C3: a selected normal parallel to (0,0,1) gives the identity rotation; an
\* antiparallel one, (0,0,-1), gives a unit quaternion that is a rotation by 180
\* degrees about an axis perpendicular to (0,0,1) (w = 0 and z = 0).
C3_ParallelNormalHandled ==
    (Returned /\ Len(ValidPlanes) > 0) =>
        /\ MedianPlane.n = UpVector => RotationQuat = QuatIdentity
        /\ MedianPlane.n = DownVector =>
               /\ IsUnitQuat(RotationQuat)
               /\ Abs(RotationQuat.w) <= Tol
               /\ Abs(RotationQuat.z) <= Tol

\* C4: for a cloud whose points all have the same z and that holds a non-collinear
\* triple, in whatever order, the call returns the identity rotation and the
\* selected normal is (0,0,1).
SameZ(pts) == \A i \in 1..Len(pts) : pts[i].z = pts[1].z

C4_HorizontalCloudIdentity ==
    (Returned /\ Len(HitPoints) >= 3 /\ SameZ(HitPoints) /\ ~AllCollinear(HitPoints)) =>
        /\ MedianPlane.n = UpVector
        /\ RotationQuat = QuatIdentity

\* C5: whenever there is a candidate plane, the returned rotation maps (0,0,1) onto
\* the selected normal; for a cloud with y = 0 throughout the normal is (0,1,0) or
\* (0,-1,0) and the rotation is by 90 degrees about the X axis (up to sign).
AllY0(pts) == \A i \in 1..Len(pts) : pts[i].y = 0

C5_RotationMapsUpToNormal ==
    (Returned /\ Len(ValidPlanes) > 0) =>
        /\ Close(RotateUp(RotationQuat), UnitFixed(MedianPlane.n))
        /\ AllY0(HitPoints) =>
               /\ MedianPlane.n \in {Vec(0, 1, 0), Vec(0, -1, 0)}
               /\ Abs(RotationQuat.w - Cos(HalfPi \div 2)) <= Tol
               /\ Abs(Abs(RotationQuat.x) - Sin(HalfPi \div 2)) <= Tol
               /\ RotationQuat.y = 0 /\ RotationQuat.z = 0

----------------------------------------------------------------------------
(* Reordering the cloud *)

\* FindMedianPlane as a function of the cloud, for a cloud with a candidate plane
FindMedianPlane(pts) ==
    LET planes == EnumeratePlanes(pts).planes
    IN  SelectMedian(planes, planes[1], 0).plane

Bijections(n) == {f \in [1..n -> 1..n] : \A i \in 1..n : \A j \in 1..n : i # j => f[i] # f[j]}

Permutations(pts) == {[i \in 1..Len(pts) |-> pts[f[i]]] : f \in Bijections(Len(pts))}

\* pts with the points at positions k and k + 1 exchanged
SwapAdjacent(pts, k) ==
    [i \in 1..Len(pts) |-> IF i = k THEN pts[k + 1] ELSE IF i = k + 1 THEN pts[k] ELSE pts[i]]

\* the orientation of a normal, the same for n and -n
Orientation(n) ==
    IF n.x < 0 \/ (n.x = 0 /\ n.y < 0) \/ (n.x = 0 /\ n.y = 0 /\ n.z < 0)
    THEN Vec(0 - n.x, 0 - n.y, 0 - n.z)
    ELSE n

Orientations(planes) == {Orientation(planes[i].n) : i \in 1..Len(planes)}

----------------------------------------------------------------------------
(* A dominant coplanar cluster and one outlier *)

\* 8 points of the plane z = 0, in the order of a 4 x 2 sampling grid
Cluster ==
    <<Vec(0, 0, 0), Vec(0, 1, 0), Vec(1, 0, 0), Vec(1, 1, 0),
      Vec(2, 0, 0), Vec(2, 1, 0), Vec(3, 0, 0), Vec(3, 1, 0)>>

Outliers == {Vec(a, b, OutlierHeight) : a \in 0..1, b \in 0..1}

InsertAt(seq, pos, e) ==
    [i \in 1..(Len(seq) + 1) |-> IF i < pos THEN seq[i] ELSE IF i = pos THEN e ELSE seq[i - 1]]

\* the cluster with the outlier at any position
OutlierClouds == {InsertAt(Cluster, pos, o) : pos \in 1..(Len(Cluster) + 1), o \in Outliers}

OutlierInit ==
    /\ HitPoints \in OutlierClouds
    /\ pc = "entry"
    /\ ValidPlanes = <<>>
    /\ visited = <<>>
    /\ MedianPlane = NoPlane
    /\ medianIdx = -1
    /\ RotationQuat = NoQuat
    /\ log = <<>>
    /\ oob = FALSE
    /\ calls = <<>>

SpecOutlier == OutlierInit /\ [][Next]_vars

\* C7: for 8 coplanar points and 1 point far off their plane, in any order, the
\* selected plane has the normal of the cluster's plane (up to sign).
C7_OutlierResistant ==
    (Selected /\ HitPoints \in OutlierClouds) => Parallel(MedianPlane.n, UpVector)

----------------------------------------------------------------------------
(* Two invocations of FindQuatFromPlane that run interleaved.  Everything an       *)
(* invocation reads and writes is its argument and its locals (the code has no     *)
(* static or global data), so each invocation owns one frame.                      *)

CallIds == {1, 2}

Frame(pts) ==
    [HitPoints |-> pts, pc |-> "entry", ValidPlanes |-> <<>>, MedianPlane |-> NoPlane,
     RotationQuat |-> NoQuat, log |-> <<>>, oob |-> FALSE]

ConcClouds == UNION {[1..n -> Grid] : n \in 0..MaxConcPoints}

Reversed(pts) == [i \in 1..Len(pts) |-> pts[Len(pts) + 1 - i]]

\* the second invocation gets the same sequence or an independent one
ConcInit ==
    /\ \E pts \in ConcClouds : \E other \in {pts, Reversed(pts)} :
          calls = <<Frame(pts), Frame(other)>>
    /\ HitPoints = <<>>
    /\ pc = "idle"
    /\ ValidPlanes = <<>>
    /\ visited = <<>>
    /\ MedianPlane = NoPlane
    /\ medianIdx = -1
    /\ RotationQuat = NoQuat
    /\ log = <<>>
    /\ oob = FALSE

main == <<HitPoints, pc, ValidPlanes, visited, MedianPlane, medianIdx, RotationQuat, log, oob>>

\* lines 133-137
ConcEntry(c) ==
    /\ calls[c].pc = "entry"
    /\ calls' = [calls EXCEPT ![c] =
          IF NotEnoughPoints(@.HitPoints)
          THEN [@ EXCEPT !.log = Append(@, WarningText), !.RotationQuat = QuatIdentity,
                         !.pc = "done"]
          ELSE [@ EXCEPT !.pc = "enumerate"]]
    /\ UNCHANGED main

\* lines 83-100
ConcEnumerate(c) ==
    /\ calls[c].pc = "enumerate"
    /\ calls' = [calls EXCEPT ![c] =
          [@ EXCEPT !.ValidPlanes = EnumeratePlanes(calls[c].HitPoints).planes, !.pc = "first"]]
    /\ UNCHANGED main

\* lines 103-104
ConcReadFirst(c) ==
    /\ calls[c].pc = "first"
    /\ \/ /\ Len(calls[c].ValidPlanes) > 0
          /\ calls' = [calls EXCEPT ![c] =
                [@ EXCEPT !.MedianPlane = calls[c].ValidPlanes[1], !.pc = "select"]]
       \/ /\ Len(calls[c].ValidPlanes) = 0
          /\ calls' = [calls EXCEPT ![c] = [@ EXCEPT !.oob = TRUE, !.pc = "fault"]]
       \/ /\ Len(calls[c].ValidPlanes) = 0
          /\ \E g \in GarbagePlanes :
                calls' = [calls EXCEPT ![c] =
                    [@ EXCEPT !.oob = TRUE, !.MedianPlane = g, !.pc = "select"]]
    /\ UNCHANGED main

\* lines 105-128
ConcSelect(c) ==
    /\ calls[c].pc = "select"
    /\ calls' = [calls EXCEPT ![c] =
          [@ EXCEPT !.MedianPlane = SelectMedian(calls[c].ValidPlanes, @, 0).plane,
                    !.pc = "quat"]]
    /\ UNCHANGED main

\* lines 139-148
ConcBuildQuat(c) ==
    /\ calls[c].pc = "quat"
    /\ calls' = [calls EXCEPT ![c] =
          [@ EXCEPT !.RotationQuat = QuatFromPlane(calls[c].MedianPlane), !.pc = "done"]]
    /\ UNCHANGED main

ConcNext ==
    \E c \in CallIds :
        ConcEntry(c) \/ ConcEnumerate(c) \/ ConcReadFirst(c) \/ ConcSelect(c) \/ ConcBuildQuat(c)

SpecConc == ConcInit /\ [][ConcNext]_vars

Ended(c) == calls[c].pc \in {"done", "fault"}

\* C8: the estimator is a pure function of its point sequence: an invocation ends
\* with its input as it was, and two invocations on the same sequence, however
\* interleaved, end the same way with the same rotation.
C8_PureFunction ==
    \A c \in CallIds : \A d \in CallIds :
        (Ended(c) /\ Ended(d) /\ calls[c].HitPoints = calls[d].HitPoints) =>
            /\ calls[c].pc = calls[d].pc
            /\ calls[c].RotationQuat = calls[d].RotationQuat

====
